---- MODULE Spec2Model ----
(***************************************************************************)
(* Model of the head output of the blog's React components.                *)
(*                                                                         *)
(* A build renders one page: the site metadata is fixed by the             *)
(* configuration, the page is a JSX element (<Seo .../> with arbitrary     *)
(* props, or <HomePage/>), and rendering it either yields the props that   *)
(* Seo hands to Helmet (html lang, title, titleTemplate, link, meta) or    *)
(* throws; a rendered element may be rendered again (`again`).  A <Bio/>   *)
(* element renders to its div (`bio`) from the result of its own query.    *)
(* JavaScript values are tagged records so that undefined, null, '' and    *)
(* non-empty strings stay distinct and truthiness, ||, ?. and template     *)
(* literals are computed as the language computes them.                    *)
(***************************************************************************)
EXTENDS Integers, Sequences, FiniteSets, TLC

VARIABLES site, page, pc, head, warnings, again, bio

vars == <<site, page, pc, head, warnings, again, bio>>

(***************************************************************************)
(* Bounds                                                                  *)
(***************************************************************************)
\* longest list of extra meta entries a caller passes
MaxMeta == 2

(***************************************************************************)
(* JavaScript values                                                       *)
(***************************************************************************)
Undefined == [t |-> "undefined", v |-> ""]
Null == [t |-> "null", v |-> ""]
Str(s) == [t |-> "string", v |-> s]
Bool(b) == [t |-> "boolean", v |-> IF b THEN "true" ELSE "false"]
Arr(q) == [t |-> "array", v |-> q]
TypeError == [t |-> "TypeError", v |-> "Cannot read properties of undefined"]

IsNullish(x) == x.t \in {"undefined", "null"}

\* ToBoolean: undefined, null, '' and false are falsy
Truthy(x) ==
    CASE x.t = "undefined" -> FALSE
      [] x.t = "null" -> FALSE
      [] x.t = "string" -> x.v # ""
      [] x.t = "boolean" -> x.v = "true"
      [] OTHER -> TRUE

\* a || b
Or(a, b) == IF Truthy(a) THEN a ELSE b

\* obj.f : throws on a nullish object
Get(obj, f) == IF IsNullish(obj) THEN TypeError ELSE obj[f]

\* obj?.f : undefined on a nullish object
OptGet(obj, f) == IF IsNullish(obj) THEN Undefined ELSE obj[f]

\* `${x}`
ToStr(x) ==
    CASE x.t = "undefined" -> "undefined"
      [] x.t = "null" -> "null"
      [] OTHER -> x.v

\* a meta descriptor {name|property: key, content}
Tag(attr, key, content) == [attr |-> attr, key |-> key, content |-> content]

(***************************************************************************)
(* Seo (components/seo.js)                                                 *)
(***************************************************************************)
\* bug variant: no default for lang
defaultProps_noLang ==
    [meta |-> Arr(<<>>), description |-> Str(""),
     image |-> Null, article |-> Bool(FALSE), canonicalUrl |-> Null,
     noindex |-> Bool(FALSE)]

defaultProps ==
    [lang |-> Str("en"), meta |-> Arr(<<>>), description |-> Str(""),
     image |-> Null, article |-> Bool(FALSE), canonicalUrl |-> Null,
     noindex |-> Bool(FALSE)]

\* React resolves defaultProps for every prop that is undefined
withDefaults(p) ==
    [k \in DOMAIN p |->
        IF p[k] = Undefined /\ k \in DOMAIN defaultProps
        THEN defaultProps[k] ELSE p[k]]

\* the props whose declared propTypes fail (only `title` is required)
propTypes(p) == IF IsNullish(p.title) THEN {"title"} ELSE {}

\* bug variant: the site description wins over the description prop
metaDescription_siteFirst(p, s) ==
    IF Truthy(Get(s.siteMetadata, "description"))
    THEN Get(s.siteMetadata, "description")
    ELSE p.description

metaDescription(p, s) ==
    IF Truthy(p.description) THEN p.description
    ELSE Get(s.siteMetadata, "description")

defaultTitle(s) == OptGet(s.siteMetadata, "title")

siteUrl(s) == Or(OptGet(s.siteMetadata, "siteUrl"), Str(""))

\* bug variant: the site default image wins over the image prop
defaultImage_siteFirst(p, s) == Or(OptGet(s.siteMetadata, "image"), p.image)

defaultImage(p, s) == Or(p.image, OptGet(s.siteMetadata, "image"))

\* bug variant: the site default image is never consulted
imageUrl_propOnly(p, s) ==
    IF Truthy(p.image)
    THEN Str(ToStr(siteUrl(s)) \o ToStr(p.image))
    ELSE Null

imageUrl(p, s) ==
    IF Truthy(defaultImage(p, s))
    THEN Str(ToStr(siteUrl(s)) \o ToStr(defaultImage(p, s)))
    ELSE Null

\* bug variant: the operands of || are swapped
pageUrl_siteFirst(p, s) == Or(Str(ToStr(siteUrl(s))), p.canonicalUrl)

pageUrl(p, s) == Or(p.canonicalUrl, Str(ToStr(siteUrl(s))))

\* bug variant: the site title is read in place of the author name
author_siteTitle(s) == Or(OptGet(s.siteMetadata, "title"), Str(""))

\* bug variant: the author object is used instead of its name
author_object(s) == Or(OptGet(s.siteMetadata, "author"), Str(""))

\* bug variant: the || '' fallback is missing
author_noFallback(s) == OptGet(OptGet(s.siteMetadata, "author"), "name")

author(s) == Or(OptGet(OptGet(s.siteMetadata, "author"), "name"), Str(""))

\* bug variant: the template is built without testing defaultTitle
titleTemplate_unguarded(s) == Str("%s | " \o ToStr(defaultTitle(s)))

titleTemplate(s) ==
    IF Truthy(defaultTitle(s))
    THEN Str("%s | " \o ToStr(defaultTitle(s)))
    ELSE Null

\* bug variant: the canonical link ignores the canonicalUrl prop
link_siteUrl(p, s) == << [rel |-> "canonical", href |-> siteUrl(s)] >>

link(p, s) == << [rel |-> "canonical", href |-> pageUrl(p, s)] >>

\* bug variant: og:type is "article" only when an author name exists too
baseTags_typeNeedsAuthor(p, s) ==
    << Tag("name", "description", metaDescription(p, s)),
       Tag("property", "og:title", p.title),
       Tag("property", "og:description", metaDescription(p, s)),
       Tag("property", "og:type",
           IF Truthy(p.article) /\ Truthy(author(s))
           THEN Str("article") ELSE Str("website")),
       Tag("property", "og:url", pageUrl(p, s)),
       Tag("property", "og:site_name", defaultTitle(s)),
       Tag("property", "og:locale",
           IF p.lang = Str("en") THEN Str("en_US") ELSE p.lang),
       Tag("name", "twitter:card",
           IF Truthy(imageUrl(p, s)) THEN Str("summary_large_image")
           ELSE Str("summary")),
       Tag("name", "twitter:creator", author(s)),
       Tag("name", "twitter:site", author(s)),
       Tag("name", "twitter:title", p.title),
       Tag("name", "twitter:description", metaDescription(p, s)),
       Tag("name", "twitter:url", pageUrl(p, s)) >>

baseTags(p, s) ==
    << Tag("name", "description", metaDescription(p, s)),
       Tag("property", "og:title", p.title),
       Tag("property", "og:description", metaDescription(p, s)),
       Tag("property", "og:type",
           IF Truthy(p.article) THEN Str("article") ELSE Str("website")),
       Tag("property", "og:url", pageUrl(p, s)),
       Tag("property", "og:site_name", defaultTitle(s)),
       Tag("property", "og:locale",
           IF p.lang = Str("en") THEN Str("en_US") ELSE p.lang),
       Tag("name", "twitter:card",
           IF Truthy(imageUrl(p, s)) THEN Str("summary_large_image")
           ELSE Str("summary")),
       Tag("name", "twitter:creator", author(s)),
       Tag("name", "twitter:site", author(s)),
       Tag("name", "twitter:title", p.title),
       Tag("name", "twitter:description", metaDescription(p, s)),
       Tag("name", "twitter:url", pageUrl(p, s)) >>

\* bug variant: width and height are swapped
imageTags_swappedDims(p, s) ==
    IF Truthy(imageUrl(p, s))
    THEN << Tag("property", "og:image", imageUrl(p, s)),
            Tag("property", "og:image:width", Str("630")),
            Tag("property", "og:image:height", Str("1200")),
            Tag("name", "twitter:image", imageUrl(p, s)) >>
    ELSE << >>

\* bug variant: the image tags are not guarded by imageUrl
imageTags_unguarded(p, s) ==
    << Tag("property", "og:image", imageUrl(p, s)),
       Tag("property", "og:image:width", Str("1200")),
       Tag("property", "og:image:height", Str("630")),
       Tag("name", "twitter:image", imageUrl(p, s)) >>

imageTags(p, s) ==
    IF Truthy(imageUrl(p, s))
    THEN << Tag("property", "og:image", imageUrl(p, s)),
            Tag("property", "og:image:width", Str("1200")),
            Tag("property", "og:image:height", Str("630")),
            Tag("name", "twitter:image", imageUrl(p, s)) >>
    ELSE << >>

\* bug variant: || in place of && in the guard
authorTags_or(p, s) ==
    IF Truthy(p.article) \/ Truthy(author(s))
    THEN << Tag("name", "author", author(s)) >>
    ELSE << >>

\* bug variant: the article flag is not part of the guard
authorTags_ignoresArticle(p, s) ==
    IF Truthy(author(s))
    THEN << Tag("name", "author", author(s)) >>
    ELSE << >>

authorTags(p, s) ==
    IF Truthy(p.article) /\ Truthy(author(s))
    THEN << Tag("name", "author", author(s)) >>
    ELSE << >>

\* bug variant: the second robots tag kept the name of the first
robotsTags_bothRobots(p) ==
    IF Truthy(p.noindex)
    THEN << Tag("name", "robots", Str("noindex, nofollow")),
            Tag("name", "robots", Str("noindex, nofollow")) >>
    ELSE << >>

\* bug variant: the robots tags are not guarded by noindex
robotsTags_unguarded(p) ==
    << Tag("name", "robots", Str("noindex, nofollow")),
       Tag("name", "googlebot", Str("noindex, nofollow")) >>

\* bug variant: the googlebot tag is left out
robotsTags_robotsOnly(p) ==
    IF Truthy(p.noindex)
    THEN << Tag("name", "robots", Str("noindex, nofollow")) >>
    ELSE << >>

robotsTags(p) ==
    IF Truthy(p.noindex)
    THEN << Tag("name", "robots", Str("noindex, nofollow")),
            Tag("name", "googlebot", Str("noindex, nofollow")) >>
    ELSE << >>

\* bug variant: the robots spread comes before the author spread
generatedTags_robotsFirst(p, s) ==
    baseTags(p, s) \o imageTags(p, s) \o robotsTags(p) \o authorTags(p, s)

generatedTags(p, s) ==
    baseTags(p, s) \o imageTags(p, s) \o authorTags(p, s) \o robotsTags(p)

\* bug variant: the caller's entries are put in front
Concat_prepend(arr, x) == IF x.t = "array" THEN x.v \o arr ELSE <<x>> \o arr

\* Array.prototype.concat: an array argument is spread, anything else is
\* appended as one element
Concat(arr, x) == IF x.t = "array" THEN arr \o x.v ELSE Append(arr, x)

meta(p, s) == Concat(generatedTags(p, s), p.meta)

\* bug variant: the list is built in place, in the caller's array
\* (meta.unshift(...tags))
ConcatArg_unshift(arr, x) == IF x.t = "array" THEN Arr(arr \o x.v) ELSE x

\* bug variant: the caller's array is drained into the list
\* (meta.splice(0))
ConcatArg_drained(arr, x) == IF x.t = "array" THEN Arr(<< >>) ELSE x

\* what arr.concat(x) leaves in x: concat copies into a new array and
\* modifies neither operand
ConcatArg(arr, x) == x

\* the caller's meta array once Seo has returned
metaAfter(p, s) == ConcatArg(generatedTags(p, s), p.meta)

NoHead == [t |-> "none"]

\* the element Seo returns: the props handed to Helmet, or the exception
\* thrown while computing them
Seo(p, s) ==
    IF metaDescription(p, s) = TypeError
    THEN [t |-> "throw", error |-> TypeError]
    ELSE [t |-> "Helmet",
          htmlAttributes |-> [lang |-> p.lang],
          title |-> p.title,
          titleTemplate |-> titleTemplate(s),
          link |-> link(p, s),
          meta |-> meta(p, s)]

(***************************************************************************)
(* HomePage (pages/index.js)                                               *)
(***************************************************************************)
msvalidate == Tag("name", "msvalidate.01", Str("527715A695666B798E1D18C3FD66E418"))

googleSiteVerification ==
    Tag("name", "google-site-verification",
        Str("ALlOLnq78qnmghuLq694BDWmPNqOfQTTTvf42ufWNNw"))

NoProps ==
    [description |-> Undefined, lang |-> Undefined, meta |-> Undefined,
     title |-> Undefined, image |-> Undefined, article |-> Undefined,
     canonicalUrl |-> Undefined, noindex |-> Undefined]

\* bug variant: the two verification entries are passed in the other order
HomePage_swapped ==
    [NoProps EXCEPT
        !.title = Str("Fernando Nogueira - Tech Lead & Software Engineer"),
        !.meta = Arr(<<googleSiteVerification, msvalidate>>)]

HomePage ==
    [NoProps EXCEPT
        !.title = Str("Fernando Nogueira - Tech Lead & Software Engineer"),
        !.meta = Arr(<<msvalidate, googleSiteVerification>>)]

(***************************************************************************)
(* Bio (components/bio.js)                                                 *)
(***************************************************************************)
bioAuthor(d) == OptGet(d.siteMetadata, "author")

bioSocial(d) == OptGet(d.siteMetadata, "social")

linkedinHref(so) ==
    "https://www.linkedin.com/in/" \o ToStr(Or(OptGet(so, "linkedin"), Str("")))

stackoverflowHref(so) ==
    "https://stackoverflow.com/users/"
        \o ToStr(Or(OptGet(so, "stackoverflow"), Str("")))

\* bug variant: the github link is built from the linkedin handle
githubHref_linkedinHandle(so) ==
    "https://github.com/" \o ToStr(Or(OptGet(so, "linkedin"), Str("")))

githubHref(so) ==
    "https://github.com/" \o ToStr(Or(OptGet(so, "github"), Str("")))

bioLinks(d) ==
    << [text |-> "Linkedin", href |-> linkedinHref(bioSocial(d))],
       [text |-> "Stackoverflow", href |-> stackoverflowHref(bioSocial(d))],
       [text |-> "Github", href |-> githubHref(bioSocial(d))] >>

StaticImage ==
    [t |-> "StaticImage", className |-> "bio-avatar", alt |-> "Profile picture"]

\* the <div> holding the "Written by" paragraph and the paragraph of links
bioDetails(d) ==
    [t |-> "div",
     writtenBy |-> OptGet(bioAuthor(d), "name"),
     summary |-> Or(OptGet(bioAuthor(d), "summary"), Null),
     links |-> bioLinks(d)]

\* bug variant: the details are guarded by the author object, not its name
bioShowsDetails_authorObject(d) == Truthy(bioAuthor(d))

\* author?.name && (...)
bioShowsDetails(d) == Truthy(OptGet(bioAuthor(d), "name"))

NoBio == [t |-> "none"]

Bio(d) ==
    [t |-> "div", className |-> "bio",
     children |-> << StaticImage >>
                  \o (IF bioShowsDetails(d) THEN << bioDetails(d) >> ELSE << >>)]

(***************************************************************************)
(* Inputs: site configurations and pages                                   *)
(***************************************************************************)
Authors ==
    {Null, [t |-> "object", name |-> Null], [t |-> "object", name |-> Str("")],
     [t |-> "object", name |-> Str("Fernando Nogueira")]}

SiteMetadatas ==
    {Null} \cup
    [t : {"object"},
     title : {Null, Str("Blog")},
     description : {Null, Str("Site description")},
     siteUrl : {Null, Str("https://blog.dev")},
     image : {Null, Str("/og.png")},
     author : Authors]

Sites == [siteMetadata : SiteMetadatas]

\* entries a caller may pass in `meta`; they reuse keys Seo generates (the
\* home page passes entries with keys of their own)
ExtraEntries ==
    {Tag("name", "author", Str("Guest Writer")),
     Tag("property", "og:image", Str("https://cdn.dev/card.png"))}

MetaLists == UNION {[1..n -> ExtraEntries] : n \in 0..MaxMeta}

SeoProps ==
    [description : {Undefined, Str("Page description")},
     lang : {Undefined, Str("pt")},
     meta : {Undefined} \cup {Arr(q) : q \in MetaLists},
     title : {Undefined, Str("Post")},
     image : {Undefined, Str("/post.png")},
     article : {Undefined, Bool(TRUE)},
     canonicalUrl : {Undefined, Str("https://blog.dev/post/")},
     noindex : {Undefined, Bool(TRUE)}]

Pages ==
    [component : {"Seo"}, props : SeoProps] \cup
    {[component |-> "HomePage", props |-> NoProps]}

\* results of Bio's query: author { name summary } and social handles
BioAuthors ==
    {Null} \cup
    [t : {"object"},
     name : {Null, Str(""), Str("Fernando Nogueira")},
     summary : {Null, Str("who writes about software.")}]

Socials ==
    {Null} \cup
    [t : {"object"},
     linkedin : {Null, Str(""), Str("fernando-nog")},
     stackoverflow : {Null, Str(""), Str("1234/fnog")},
     github : {Null, Str(""), Str("fnog")}]

BioSites ==
    [siteMetadata : {Null} \cup [t : {"object"}, author : BioAuthors, social : Socials]]

BioPage == [component |-> "Bio", props |-> NoProps]

(***************************************************************************)
(* The build                                                               *)
(***************************************************************************)
Init ==
    /\ \/ site \in Sites /\ page \in Pages
       \/ site \in BioSites /\ page = BioPage
    /\ pc = "pending"
    /\ head = NoHead
    /\ warnings = {}
    /\ again = FALSE
    /\ bio = NoBio

\* render an element <Seo {...props}/>; a failed propType is a console
\* warning (of a development build) and never stops the render.  The site
\* metadata is only read; the caller's meta array is what concat leaves.
Render(props) ==
    LET out == Seo(withDefaults(props), site) IN
    /\ warnings' = propTypes(withDefaults(props))
    /\ IF out.t = "throw"
       THEN pc' = "failed" /\ head' = NoHead
       ELSE pc' = "rendered" /\ head' = out
    /\ page' = IF page.component = "Seo" /\ page.props.meta.t = "array"
                  /\ out.t # "throw"
               THEN [page EXCEPT
                       !.props.meta = metaAfter(withDefaults(props), site)]
               ELSE page
    /\ again' = (pc # "pending")
    /\ UNCHANGED <<site, bio>>

RenderSeo ==
    /\ pc = "pending"
    /\ page.component = "Seo"
    /\ Render(page.props)

RenderHomePage ==
    /\ pc = "pending"
    /\ page.component = "HomePage"
    /\ Render(HomePage)

\* React calls the component again for the same element
Rerender ==
    /\ pc = "rendered"
    /\ Render(IF page.component = "HomePage" THEN HomePage ELSE page.props)

\* render <Bio/>: no property is read off a nullish object, so the render
\* always returns its div
RenderBio ==
    /\ pc = "pending"
    /\ page.component = "Bio"
    /\ bio' = Bio(site)
    /\ pc' = "bio"
    /\ UNCHANGED <<site, page, head, warnings, again>>

Next == RenderSeo \/ RenderHomePage \/ Rerender \/ RenderBio

Spec == Init /\ [][Next]_vars

TypeOK ==
    /\ \/ site \in Sites /\ page \in Pages
       \/ site \in BioSites /\ page = BioPage
    /\ pc \in {"pending", "rendered", "failed", "bio"}
    /\ pc = "bio" <=> bio # NoBio
    /\ warnings \subseteq {"title"}
    /\ again \in BOOLEAN
    /\ again => pc = "rendered"
    /\ pc = "rendered" <=> head # NoHead

(***************************************************************************)
(* Vocabulary of the properties.  Inputs are read from the page element    *)
(* and the site configuration, outputs from `head`.                        *)
(***************************************************************************)
Rendered == pc = "rendered"

\* the props the caller passed (undefined where none was passed)
passed == IF page.component = "HomePage" THEN HomePage ELSE page.props

\* a non-empty string: a prop or metadata field that is set
IsSet(x) == x.t = "string" /\ x.v # ""

\* a field of the site metadata, null when the metadata object is absent
SiteField(f) ==
    IF site.siteMetadata.t = "object" THEN site.siteMetadata[f] ELSE Null

SiteAuthorName ==
    IF SiteField("author").t = "object" THEN SiteField("author").name ELSE Null

\* the caller's extra meta entries ([] when the prop is not passed)
callerMeta == IF passed.meta.t = "array" THEN passed.meta.v ELSE << >>

\* the tags in front of the caller's entries
GenLen == Len(head.meta) - Len(callerMeta)

Tags(k) == {i \in DOMAIN head.meta : head.meta[i].key = k}

GenTags(k) == {i \in Tags(k) : i <= GenLen}

HasTag(k, c) == \E i \in Tags(k) : head.meta[i].content = c

ImageKeys == {"og:image", "og:image:width", "og:image:height", "twitter:image"}

TitleOnly ==
    /\ page.component = "Seo"
    /\ page.props = [NoProps EXCEPT !.title = Str("Post")]

C2_CardFollowsImageProp ==
    Rendered =>
        HasTag("twitter:card",
               IF IsSet(passed.image) THEN Str("summary_large_image")
               ELSE Str("summary"))

\* C2, amended: the twitter:card tag Seo generates is "summary_large_image"
\* when an image prop is given or the site has a default image, and
\* "summary" only when neither is set.
C2_CardFollowsImageUrl ==
    Rendered =>
        /\ Cardinality(GenTags("twitter:card")) = 1
        /\ \A i \in GenTags("twitter:card") :
              head.meta[i].content =
                 IF IsSet(passed.image) \/ IsSet(SiteField("image"))
                 THEN Str("summary_large_image") ELSE Str("summary")

C2_Witness ==
    /\ Rendered
    /\ ~IsSet(passed.image)
    /\ IsSet(SiteField("image"))
    /\ HasTag("twitter:card", Str("summary_large_image"))

\* C3: there is exactly one link, the canonical one; its href is the
\* canonicalUrl prop when one is provided and the site's siteUrl otherwise
\* (the empty string standing for a siteUrl that is not configured).
C3_Canonical ==
    Rendered =>
        /\ Len(head.link) = 1
        /\ head.link[1].rel = "canonical"
        /\ head.link[1].href =
              IF IsSet(passed.canonicalUrl) THEN passed.canonicalUrl
              ELSE IF IsSet(SiteField("siteUrl")) THEN SiteField("siteUrl")
              ELSE Str("")

C3_Witness ==
    /\ Rendered
    /\ IsSet(passed.canonicalUrl)
    /\ IsSet(SiteField("siteUrl"))
    /\ passed.canonicalUrl # SiteField("siteUrl")
    /\ head.link[1].href = passed.canonicalUrl

\* the number of tags the inputs call for
ExpectedGenerated ==
    13 + (IF IsSet(passed.image) \/ IsSet(SiteField("image")) THEN 4 ELSE 0)
       + (IF passed.article = Bool(TRUE) /\ IsSet(SiteAuthorName) THEN 1 ELSE 0)
       + (IF passed.noindex = Bool(TRUE) THEN 2 ELSE 0)

\* C4: the meta list is the generated tags followed by exactly the caller's
\* entries in the caller's order: nothing dropped, reordered, merged or
\* placed among the generated tags.
C4_ExtraMetaAppended ==
    Rendered =>
        /\ Len(head.meta) = ExpectedGenerated + Len(callerMeta)
        /\ \A j \in DOMAIN callerMeta :
              head.meta[ExpectedGenerated + j] = callerMeta[j]

C4_Witness ==
    /\ Rendered
    /\ Len(callerMeta) = 2
    /\ callerMeta[1].key = "author"
    /\ callerMeta[2].key = "og:image"
    /\ passed.article = Bool(TRUE) /\ IsSet(SiteAuthorName)
    /\ head.meta[Len(head.meta)] = callerMeta[2]

ArticleWithAuthor == passed.article = Bool(TRUE) /\ IsSet(SiteAuthorName)

\* C5, as stated: with article=true and a non-empty site author name the
\* meta list holds exactly one tag named author, carrying that name.
C5_OneAuthorInList ==
    (Rendered /\ ArticleWithAuthor) =>
        /\ Cardinality(Tags("author")) = 1
        /\ \A i \in Tags("author") : head.meta[i].content = SiteAuthorName

\* C5, amended: with article=true and a non-empty site author name Seo
\* generates exactly one tag named author, carrying that name; an author
\* entry among the caller's extra meta entries is appended besides it.
C5_OneAuthorGenerated ==
    (Rendered /\ ArticleWithAuthor) =>
        /\ Cardinality(GenTags("author")) = 1
        /\ \A i \in GenTags("author") :
              head.meta[i] = Tag("name", "author", SiteAuthorName)
        /\ Cardinality(Tags("author")) =
              1 + Cardinality({j \in DOMAIN callerMeta : callerMeta[j].key = "author"})

C5_Witness ==
    /\ Rendered /\ ArticleWithAuthor
    /\ \E j \in DOMAIN callerMeta : callerMeta[j].key = "author"
    /\ Cardinality(Tags("author")) = 2

\* C6: with noindex=true the meta list holds a robots tag and a googlebot
\* tag, each with content "noindex, nofollow".
C6_Noindex ==
    (Rendered /\ passed.noindex = Bool(TRUE)) =>
        /\ HasTag("robots", Str("noindex, nofollow"))
        /\ HasTag("googlebot", Str("noindex, nofollow"))

C6_Witness ==
    /\ Rendered
    /\ passed.noindex = Bool(TRUE)
    /\ Tags("robots") # {} /\ Tags("googlebot") # {}

\* C7: a render without the required title is an error and produces no
\* head output.
C7_MissingTitleFails ==
    (pc \in {"rendered", "failed"} /\ ~IsSet(passed.title)) =>
        (pc = "failed" /\ head = NoHead)

\* C8: every render that supplies a title completes and yields a meta
\* list, whichever optional props and site metadata fields are absent, the
\* siteMetadata object included.
C8_TitleSuffices ==
    (pc \in {"rendered", "failed"} /\ IsSet(passed.title)) =>
        (pc = "rendered" /\ head.t = "Helmet")

NoAuthorName == ~IsSet(SiteAuthorName)

\* C9, as stated: when the site metadata has no author name the meta list
\* holds no twitter:creator tag.
C9_NoCreatorTag ==
    (Rendered /\ NoAuthorName) => Tags("twitter:creator") = {}

\* C9, amended: when the site metadata has no author name the
\* twitter:creator tag is still generated, once, with the empty string as
\* its content.
C9_EmptyCreatorTag ==
    (Rendered /\ NoAuthorName) =>
        /\ Cardinality(GenTags("twitter:creator")) = 1
        /\ \A i \in GenTags("twitter:creator") : head.meta[i].content = Str("")

C9_Witness ==
    /\ Rendered /\ NoAuthorName
    /\ site.siteMetadata.t = "object"
    /\ HasTag("twitter:creator", Str(""))

NoImage == ~IsSet(passed.image) /\ ~IsSet(SiteField("image"))

\* C10, as stated: when neither the image prop nor the site default image
\* is set the meta list holds none of og:image, og:image:width,
\* og:image:height, twitter:image.
C10_NoImageKeyInList ==
    (Rendered /\ NoImage) => \A k \in ImageKeys : Tags(k) = {}

\* C10, amended: when neither the image prop nor the site default image is
\* set Seo generates none of the four image tags; the meta list holds one
\* only where the caller's extra meta entries supply it.
C10_NoImageTagGenerated ==
    (Rendered /\ NoImage) =>
        /\ \A k \in ImageKeys : GenTags(k) = {}
        /\ \A k \in ImageKeys : \A i \in Tags(k) :
              head.meta[i] = callerMeta[i - GenLen]

C10_Witness ==
    /\ Rendered /\ NoImage
    /\ site.siteMetadata.t = "object"
    /\ \E j \in DOMAIN callerMeta : callerMeta[j].key = "og:image"

ImageResolvable == IsSet(passed.image) \/ IsSet(SiteField("image"))

BaseKeys ==
    << "description", "og:title", "og:description", "og:type", "og:url",
       "og:site_name", "og:locale", "twitter:card", "twitter:creator",
       "twitter:site", "twitter:title", "twitter:description", "twitter:url" >>

ExpectedKeys ==
    BaseKeys
    \o (IF ImageResolvable
        THEN << "og:image", "og:image:width", "og:image:height", "twitter:image" >>
        ELSE << >>)
    \o (IF ArticleWithAuthor THEN << "author" >> ELSE << >>)
    \o (IF passed.noindex = Bool(TRUE) THEN << "robots", "googlebot" >> ELSE << >>)

\* C12: the generated tags come in one fixed order: the thirteen base
\* tags, then the four image tags, then author, then robots and googlebot;
\* each optional group is wholly present or wholly absent and leaves the
\* order of the rest alone.
C12_FixedOrder ==
    Rendered =>
        /\ GenLen = Len(ExpectedKeys)
        /\ \A i \in 1..GenLen : head.meta[i].key = ExpectedKeys[i]

C12_Witness ==
    /\ Rendered
    /\ ImageResolvable /\ ArticleWithAuthor /\ passed.noindex = Bool(TRUE)
    /\ GenLen = 20
    /\ head.meta[18].key = "author"

\* C13: no render changes its inputs: the caller's meta array and the site
\* metadata are the same after every render of a sequence as before it.
C13_InputsUnchanged == [][page' = page /\ site' = site]_vars

C13_Witness ==
    /\ again /\ Rendered
    /\ Len(callerMeta) = MaxMeta
    /\ site.siteMetadata.t = "object"

\* C14: among the generated tags an author tag is present only if article
\* is true and the site author name is non-empty.
C14_AuthorOnlyIf ==
    Rendered => (GenTags("author") # {} => ArticleWithAuthor)

C14_Witness ==
    /\ Rendered
    /\ passed.article = Bool(TRUE)
    /\ SiteAuthorName = Str("")
    /\ GenTags("author") = {}

\* C15: among the generated tags robots and googlebot are present only if
\* noindex is true; without it neither appears, whatever the other props.
C15_RobotsOnlyIf ==
    Rendered =>
        ((GenTags("robots") # {} \/ GenTags("googlebot") # {})
            => passed.noindex = Bool(TRUE))

C15_Witness ==
    /\ Rendered
    /\ passed.noindex = Undefined
    /\ ArticleWithAuthor /\ ImageResolvable /\ Len(callerMeta) > 0
    /\ GenTags("robots") = {} /\ GenTags("googlebot") = {}

SiteUrlString ==
    IF IsSet(SiteField("siteUrl")) THEN SiteField("siteUrl").v ELSE ""

\* the site URL followed by the image path: the prop if set, else the site's
ExpectedImageUrl ==
    Str(SiteUrlString \o
        (IF IsSet(passed.image) THEN passed.image.v ELSE SiteField("image").v))

\* C16, as stated: the four image tags are in the list together or not at
\* all; with a resolvable image each is there exactly once, og:image and
\* twitter:image with the image URL, width "1200", height "630"; width and
\* height never differ from that nor appear without og:image.
C16_ImageTagsInList ==
    Rendered =>
        /\ \A k \in ImageKeys : (Tags(k) # {}) <=> ImageResolvable
        /\ \A k \in ImageKeys : ImageResolvable => Cardinality(Tags(k)) = 1
        /\ \A k \in {"og:image", "twitter:image"} : \A i \in Tags(k) :
              head.meta[i].content = ExpectedImageUrl
        /\ \A i \in Tags("og:image:width") : head.meta[i].content = Str("1200")
        /\ \A i \in Tags("og:image:height") : head.meta[i].content = Str("630")

\* C16, amended: the same of the tags Seo generates: the four image tags
\* are generated together or not at all, each exactly once with a
\* resolvable image, with the image URL, "1200" and "630"; image tags among
\* the caller's extra entries are appended besides them.
C16_ImageTagsGenerated ==
    Rendered =>
        /\ \A k \in ImageKeys : (GenTags(k) # {}) <=> ImageResolvable
        /\ \A k \in ImageKeys : ImageResolvable => Cardinality(GenTags(k)) = 1
        /\ \A k \in {"og:image", "twitter:image"} : \A i \in GenTags(k) :
              head.meta[i].content = ExpectedImageUrl
        /\ \A i \in GenTags("og:image:width") : head.meta[i].content = Str("1200")
        /\ \A i \in GenTags("og:image:height") : head.meta[i].content = Str("630")

C16_Witness ==
    /\ Rendered /\ ImageResolvable
    /\ \E j \in DOMAIN callerMeta : callerMeta[j].key = "og:image"
    /\ Cardinality(GenTags("og:image:width")) = 1
    /\ Cardinality(Tags("og:image")) > 1

DescriptionKeys == {"description", "og:description", "twitter:description"}

\* C17, as stated: the description is the prop when non-empty, otherwise
\* the site description, otherwise the empty string, and the three
\* description tags carry it.
C17_DescriptionOrEmpty ==
    Rendered =>
        \A k \in DescriptionKeys : \A i \in GenTags(k) :
            head.meta[i].content =
                IF IsSet(passed.description) THEN passed.description
                ELSE IF IsSet(SiteField("description")) THEN SiteField("description")
                ELSE Str("")

\* C17, amended: the description is the prop when non-empty and otherwise
\* the description field of the site metadata as it is, null when the site
\* configures none (there is no empty-string fallback); the three
\* description tags carry that one value.
C17_DescriptionFallback ==
    Rendered =>
        \A k \in DescriptionKeys :
            /\ Cardinality(GenTags(k)) = 1
            /\ \A i \in GenTags(k) :
                  head.meta[i].content =
                      IF IsSet(passed.description) THEN passed.description
                      ELSE SiteField("description")

C17_Witness ==
    /\ Rendered
    /\ ~IsSet(passed.description)
    /\ site.siteMetadata.t = "object"
    /\ SiteField("description") = Null
    /\ HasTag("og:description", Null)

\* C18: the image is the prop when set, otherwise the site default image;
\* og:image and twitter:image carry the site URL (empty when missing)
\* followed by that path; with neither set no image tag is generated.
C18_ImageFallback ==
    Rendered =>
        IF ImageResolvable
        THEN \A k \in {"og:image", "twitter:image"} :
                /\ GenTags(k) # {}
                /\ \A i \in GenTags(k) : head.meta[i].content = ExpectedImageUrl
        ELSE \A k \in ImageKeys : GenTags(k) = {}

C18_Witness ==
    /\ Rendered
    /\ IsSet(passed.image) /\ IsSet(SiteField("image"))
    /\ passed.image # SiteField("image")
    /\ HasTag("og:image", Str("https://blog.dev/post.png"))
    /\ HasTag("twitter:image", Str("https://blog.dev/post.png"))

\* C19: the canonical link href, the og:url content and the twitter:url
\* content are one value in every render.
C19_OneUrl ==
    Rendered =>
        \A k \in {"og:url", "twitter:url"} :
            /\ GenTags(k) # {}
            /\ \A i \in GenTags(k) : head.meta[i].content = head.link[1].href

C19_Witness ==
    /\ Rendered
    /\ IsSet(passed.canonicalUrl) /\ IsSet(SiteField("siteUrl"))
    /\ HasTag("og:url", passed.canonicalUrl)
    /\ HasTag("twitter:url", passed.canonicalUrl)

\* C20: og:type is "article" exactly when the article prop is true and
\* "website" otherwise, whether or not an author name exists.
C20_OgType ==
    Rendered =>
        /\ Cardinality(GenTags("og:type")) = 1
        /\ \A i \in GenTags("og:type") :
              head.meta[i].content =
                  IF passed.article = Bool(TRUE) THEN Str("article")
                  ELSE Str("website")

C20_Witness ==
    /\ Rendered
    /\ passed.article = Bool(TRUE)
    /\ ~IsSet(SiteAuthorName)
    /\ HasTag("og:type", Str("article"))

\* C21: among the generated tags no two descriptors have the same name or
\* property key.
C21_DistinctKeys ==
    Rendered =>
        \A i, j \in 1..GenLen : i # j => head.meta[i].key # head.meta[j].key

C21_Witness ==
    /\ Rendered
    /\ ImageResolvable /\ ArticleWithAuthor /\ passed.noindex = Bool(TRUE)
    /\ Len(callerMeta) = 0
    /\ Len(head.meta) = 20

EffectiveLang == IF passed.lang = Undefined THEN Str("en") ELSE passed.lang

\* C23: og:locale is "en_US" when lang is "en" (also by default) and the
\* lang value itself for any other lang; the html lang attribute is lang.
C23_Locale ==
    Rendered =>
        /\ head.htmlAttributes.lang = EffectiveLang
        /\ Cardinality(GenTags("og:locale")) = 1
        /\ \A i \in GenTags("og:locale") :
              head.meta[i].content =
                  IF EffectiveLang = Str("en") THEN Str("en_US") ELSE EffectiveLang

C23_Witness ==
    /\ Rendered
    /\ passed.lang = Undefined
    /\ head.htmlAttributes.lang = Str("en")
    /\ HasTag("og:locale", Str("en_US"))

\* C24: the title template is "%s | <site title>" when the site has a
\* non-empty title and null otherwise; og:title and twitter:title carry the
\* bare title prop, og:site_name the site title.
C24_Titles ==
    Rendered =>
        /\ head.title = passed.title
        /\ head.titleTemplate =
              IF IsSet(SiteField("title"))
              THEN Str("%s | " \o SiteField("title").v) ELSE Null
        /\ \A k \in {"og:title", "twitter:title"} :
              /\ Cardinality(GenTags(k)) = 1
              /\ \A i \in GenTags(k) : head.meta[i].content = passed.title
        /\ Cardinality(GenTags("og:site_name")) = 1
        /\ \A i \in GenTags("og:site_name") :
              IF IsSet(SiteField("title"))
              THEN head.meta[i].content = SiteField("title")
              ELSE ~IsSet(head.meta[i].content)

C24_Witness ==
    /\ Rendered
    /\ head.titleTemplate = Str("%s | Blog")
    /\ HasTag("og:title", Str("Post"))
    /\ HasTag("twitter:title", Str("Post"))
    /\ HasTag("og:site_name", Str("Blog"))

\* C25: twitter:creator and twitter:site are generated in every render,
\* with the same content: the site author name, or the empty string when
\* none is configured.
C25_CreatorAndSite ==
    Rendered =>
        \A k \in {"twitter:creator", "twitter:site"} :
            /\ Cardinality(GenTags(k)) = 1
            /\ \A i \in GenTags(k) :
                  head.meta[i].content =
                      IF IsSet(SiteAuthorName) THEN SiteAuthorName ELSE Str("")

C25_Witness ==
    /\ Rendered
    /\ IsSet(SiteAuthorName) /\ IsSet(SiteField("title"))
    /\ HasTag("twitter:creator", SiteAuthorName)
    /\ HasTag("twitter:site", SiteAuthorName)

(***************************************************************************)
(* Bio                                                                     *)
(***************************************************************************)
BioDone == pc = "bio"

BioAvatar == Len(bio.children) >= 1 /\ bio.children[1].t = "StaticImage"

BioAvatarAlone == BioAvatar /\ Len(bio.children) = 1

\* the "Written by" paragraph with the author name and the three links
BioDetails ==
    /\ Len(bio.children) = 2
    /\ bio.children[2].writtenBy = SiteAuthorName
    /\ Len(bio.children[2].links) = 3

NoErrorInBio == page.component = "Bio" => pc \in {"pending", "bio"}

\* C26, as stated: Bio always renders the avatar and renders the
\* "Written by" paragraph with the three links exactly when the author name
\* is non-empty; with siteMetadata, author or social absent it renders the
\* avatar alone, without error.
C26_AvatarAloneWithoutSocial ==
    /\ NoErrorInBio
    /\ BioDone =>
          /\ BioAvatar
          /\ IF IsSet(SiteAuthorName) THEN BioDetails ELSE BioAvatarAlone
          /\ (\/ site.siteMetadata.t # "object"
              \/ SiteField("author").t # "object"
              \/ SiteField("social").t # "object") => BioAvatarAlone

\* C26, amended: Bio always renders the avatar and renders the "Written
\* by" paragraph with the three links exactly when the author name is
\* non-empty; with siteMetadata or the author object absent it renders the
\* avatar alone; an absent social object causes no error and hides nothing.
C26_BioDetails ==
    /\ NoErrorInBio
    /\ BioDone =>
          /\ BioAvatar
          /\ IF IsSet(SiteAuthorName) THEN BioDetails ELSE BioAvatarAlone
          /\ (\/ site.siteMetadata.t # "object"
              \/ SiteField("author").t # "object") => BioAvatarAlone
          /\ (SiteField("social").t # "object" /\ IsSet(SiteAuthorName))
                => BioDetails

C26_Witness ==
    /\ BioDone
    /\ site.siteMetadata.t = "object"
    /\ SiteField("social") = Null
    /\ IsSet(SiteAuthorName)
    /\ Len(bio.children) = 2

\* a social handle, the empty string when it or the social object is missing
Handle(f) ==
    IF SiteField("social").t = "object" /\ IsSet(SiteField("social")[f])
    THEN SiteField("social")[f].v ELSE ""

\* C27: each rendered link is its base URL followed by its own handle; a
\* missing handle leaves the bare base URL, the link stays, and the other
\* two links are what their own handles make them.
C27_Links ==
    (BioDone /\ Len(bio.children) = 2) =>
        bio.children[2].links =
            << [text |-> "Linkedin",
                href |-> "https://www.linkedin.com/in/" \o Handle("linkedin")],
               [text |-> "Stackoverflow",
                href |-> "https://stackoverflow.com/users/" \o Handle("stackoverflow")],
               [text |-> "Github",
                href |-> "https://github.com/" \o Handle("github")] >>

C27_Witness ==
    /\ BioDone /\ Len(bio.children) = 2
    /\ SiteField("social").t = "object"
    /\ SiteField("social").linkedin = Null
    /\ bio.children[2].links[1].href = "https://www.linkedin.com/in/"
    /\ bio.children[2].links[2].href = "https://stackoverflow.com/users/1234/fnog"
    /\ bio.children[2].links[3].href = "https://github.com/fnog"
====
